---- MODULE Spec2Model ----
(***************************************************************************)
(* SubsonicScrobbleRequest (src/subsonic/subsonicscrobblerequest.cpp):     *)
(* a queue of scrobble requests of which at most                           *)
(* kMaxConcurrentScrobbleRequests are in flight, the handler of a reply,   *)
(* which reads the reply for an error and flushes the queue again, and the *)
(* destructor, which aborts the replies still in flight.                   *)
(*                                                                         *)
(* One thread runs everything (the Qt event loop of the object's thread),  *)
(* so every member function is one atomic action.  A member function is an *)
(* operator from the object's state (a record) to its state after the      *)
(* call; an action applies one to the variables.                           *)
(***************************************************************************)
EXTENDS Integers, Sequences, FiniteSets, TLC

kMaxConcurrentScrobbleRequests == 3

\* The number of CreateScrobbleRequest calls of a run.
MaxSubmit == 5

\* The number of replies of a run that hold an error document.
MaxErrorReplies == 2

VARIABLES
  scrobble_requests_queue_,   \* QQueue<Request>: the requests not yet sent
  scrobble_requests_active_,  \* int: the counter of requests in flight
  replies_,                   \* QList<QNetworkReply*>: the replies in flight
  errors_,                    \* QStringList: the error messages collected
  connected,   \* the replies whose finished() signal is connected to this object
  running,     \* the replies whose network operation has not finished
  released,    \* the replies deleteLater() was called on
  alive,       \* FALSE once the destructor has run
  requests,    \* requests[h]: the request CreateGetRequest got for reply h
  submitted,   \* the number of CreateScrobbleRequest calls so far
  decrements,  \* decrements[h]: how often the counter was decremented for reply h
  burst,       \* CreateScrobbleRequest calls since the queue was idle, with no
               \* reply handled in between; -1 when a reply was handled since
  calls,       \* the calls the last operation made on replies and the transport
  lastOp       \* the last operation, its arguments and the state it started in

vars == <<scrobble_requests_queue_, scrobble_requests_active_, replies_, errors_,
          connected, running, released, alive, requests, submitted, decrements,
          burst, calls, lastOp>>

\* A QNetworkReply* is the number of the CreateGetRequest call that made it.
Handles == 1..MaxSubmit

Range(seq) == {seq[i] : i \in 1..Len(seq)}

Min(a, b) == IF a < b THEN a ELSE b

Max(a, b) == IF a > b THEN a ELSE b

\* F(e), with e evaluated once
Once(F(_), e) == CHOOSE r \in {F(v) : v \in {e}} : TRUE

(***************************************************************************)
(* QString with place markers.  A string is a sequence of tokens, a token  *)
(* either literal text or a place marker %n, which is what QString::arg    *)
(* scans a string for.                                                     *)
(***************************************************************************)
Lit(text) == <<[lit |-> text, mark |-> 0]>>

Mark(n) == <<[lit |-> "", mark |-> n]>>

RECURSIVE Render(_)
Render(str) ==
  IF str = <<>> THEN ""
  ELSE (IF Head(str).mark = 0 THEN Head(str).lit
        ELSE "%" \o ToString(Head(str).mark)) \o Render(Tail(str))

QStringIsEmpty(str) == Render(str) = ""

RECURSIVE Substitute(_, _, _)
Substitute(str, n, a) ==
  IF str = <<>> THEN <<>>
  ELSE (IF Head(str).mark = n THEN a ELSE <<Head(str)>>) \o Substitute(Tail(str), n, a)

\* QString::arg(a): every occurrence of the lowest-numbered place marker of
\* the string is replaced by a; a string with no marker is returned as it is.
Arg(str, a) ==
  LET marks == {str[i].mark : i \in 1..Len(str)} \ {0}
  IN IF marks = {} THEN str
     ELSE Substitute(str, CHOOSE n \in marks : \A m \in marks : n <= m, a)

QStringNumber(n) == Lit(ToString(n))

(***************************************************************************)
(* QJsonValue and QJsonObject.  An object is a set of <<key, value>>       *)
(* members; a value has a type t and, by its type, a number n, a string s  *)
(* or the members o of an object.                                          *)
(***************************************************************************)
JNum(n) == [t |-> "num", n |-> n, s |-> <<>>, o |-> {}]

JStr(str) == [t |-> "str", n |-> 0, s |-> str, o |-> {}]

JObj(members) == [t |-> "obj", n |-> 0, s |-> <<>>, o |-> members]

JUndefined == [t |-> "undefined", n |-> 0, s |-> <<>>, o |-> {}]

JNull == [t |-> "null", n |-> 0, s |-> <<>>, o |-> {}]

JsonIsEmpty(obj) == obj = {}

JsonContains(obj, key) == \E m \in obj : m[1] = key

JsonValue(obj, key) ==
  IF JsonContains(obj, key) THEN (CHOOSE m \in obj : m[1] = key)[2] ELSE JUndefined

JsonIsObject(v) == v.t = "obj"

JsonToObject(v) == IF v.t = "obj" THEN v.o ELSE {}

JsonToInt(v) == IF v.t = "num" THEN v.n ELSE 0

JsonToString(v) == IF v.t = "str" THEN v.s ELSE <<>>

(***************************************************************************)
(* The bytes of a reply, and the JSON object read from them.               *)
(***************************************************************************)
NoContent == ""

NotJson == "<html>"

EmptyDocument == "{}"

StatusOk == "{\"status\":\"ok\"}"

ErrorIsString == "{\"error\":\"oops\"}"

ErrorIsEmptyObject == "{\"error\":{}}"

ErrorCodeOnly == "{\"error\":{\"code\":70}}"

ErrorMessageOnly == "{\"error\":{\"message\":\"bad session\"}}"

ErrorCodeMessage == "{\"error\":{\"code\":70,\"message\":\"bad session\"}}"

ErrorIsNull == "{\"error\":null}"

ErrorNegativeCode == "{\"error\":{\"code\":-1,\"message\":\"no\"}}"

ErrorMarkerMessage == "{\"error\":{\"code\":70,\"message\":\"quota %1\"}}"

ErrorTextCode == "{\"error\":{\"code\":\"x\",\"message\":\"bad session\"}}"

ErrorNumberMessage == "{\"error\":{\"code\":70,\"message\":7}}"

\* The replies with no error document, and those with one.
SuccessData == {NoContent, NotJson, StatusOk}

ErrorData == {ErrorIsString, ErrorCodeMessage}

\* SubsonicBaseRequest::GetReplyData: the bytes of the reply, none when the
\* request failed or the server sent nothing.
GetReplyData(data) == data

\* SubsonicBaseRequest::ExtractJsonObj: the JSON object of the bytes, the
\* empty object when the bytes are not a JSON document.
ExtractJsonObj(data) ==
  CASE data = StatusOk -> {<<"status", JStr(Lit("ok"))>>}
    [] data = ErrorIsString -> {<<"error", JStr(Lit("oops"))>>}
    [] data = ErrorIsEmptyObject -> {<<"error", JObj({})>>}
    [] data = ErrorCodeOnly -> {<<"error", JObj({<<"code", JNum(70)>>})>>}
    [] data = ErrorMessageOnly ->
         {<<"error", JObj({<<"message", JStr(Lit("bad session"))>>})>>}
    [] data = ErrorCodeMessage ->
         {<<"error", JObj({<<"code", JNum(70)>>,
                           <<"message", JStr(Lit("bad session"))>>})>>}
    [] data = ErrorIsNull -> {<<"error", JNull>>}
    [] data = ErrorNegativeCode ->
         {<<"error", JObj({<<"code", JNum(-1)>>, <<"message", JStr(Lit("no"))>>})>>}
    [] data = ErrorMarkerMessage ->
         {<<"error", JObj({<<"code", JNum(70)>>,
                           <<"message", JStr(Lit("quota ") \o Mark(1))>>})>>}
    [] data = ErrorTextCode ->
         {<<"error", JObj({<<"code", JStr(Lit("x"))>>,
                           <<"message", JStr(Lit("bad session"))>>})>>}
    [] data = ErrorNumberMessage ->
         {<<"error", JObj({<<"code", JNum(70)>>, <<"message", JNum(7)>>})>>}
    [] OTHER -> {}

(***************************************************************************)
(* The object.  Its state s is a record of the members (queue, active,     *)
(* replies, errors), of the state of the replies it made (connected,       *)
(* running, released), and of what is recorded of the run (requests,       *)
(* decrements, calls, outcome).                                            *)
(***************************************************************************)
Call(name, reply) == [call |-> name, reply |-> reply]

\* Faulty variant: the request is put at the head of the queue.
EnqueueAtHead(queue, request) == <<request>> \o queue

\* QQueue::enqueue
Enqueue(queue, request) == Append(queue, request)

\* Faulty variant: the head of the queue is read and left in the queue.
DequeuePeek(queue) == <<Head(queue), queue>>

\* Faulty variant: the request submitted last is taken.
DequeueLast(queue) == <<queue[Len(queue)], SubSeq(queue, 1, Len(queue) - 1)>>

\* QQueue::dequeue: the head of the queue, and the queue without it
Dequeue(queue) == <<Head(queue), Tail(queue)>>

\* Faulty variant: the loop goes on with the counter at the limit.
CanFlushOneMore(s) ==
  s.queue # <<>> /\ s.active <= kMaxConcurrentScrobbleRequests

\* The condition of the loop of FlushScrobbleRequests
CanFlush(s) == s.queue # <<>> /\ s.active < kMaxConcurrentScrobbleRequests

\* Faulty variant: a request is sent and the counter is left as it is.
FlushOneUncounted(s) ==
  LET request == Dequeue(s.queue)[1]
      reply == Len(s.requests) + 1
  IN [s EXCEPT !.queue = Dequeue(s.queue)[2],
               !.requests = Append(@, request),
               !.running = @ \cup {reply},
               !.replies = Append(@, reply),
               !.connected = @ \cup {reply},
               !.calls = Append(@, Call("CreateGetRequest", reply))]

\* One round of the loop of FlushScrobbleRequests: the request at the head
\* leaves the queue, the counter goes up, CreateGetRequest makes the reply,
\* which is added to replies_ and whose finished() is connected.
FlushOne(s) ==
  LET request == Dequeue(s.queue)[1]
      reply == Len(s.requests) + 1
  IN [s EXCEPT !.queue = Dequeue(s.queue)[2],
               !.active = @ + 1,
               !.requests = Append(@, request),
               !.running = @ \cup {reply},
               !.replies = Append(@, reply),
               !.connected = @ \cup {reply},
               !.calls = Append(@, Call("CreateGetRequest", reply))]

RECURSIVE FlushScrobbleRequests(_)
FlushScrobbleRequests(s) ==
  IF CanFlush(s) THEN Once(LAMBDA v : FlushScrobbleRequests(v), FlushOne(s)) ELSE s

\* Faulty variant: the queue is not flushed.
FinishCheckNever(s) == s

\* Faulty variant: a request is sent whatever the counter.
FinishCheckUnguarded(s) == IF s.queue # <<>> THEN FlushOne(s) ELSE s

\* Lines 140 to 144
FinishCheck(s) ==
  IF s.queue # <<>> /\ s.active < kMaxConcurrentScrobbleRequests
  THEN FlushScrobbleRequests(s) ELSE s

\* Faulty variant: the message is kept even when it is empty.
ErrorAppendAlways(errors, error) == Append(errors, Render(error))

\* Error(error, debug): the message is kept unless it is empty; debug is
\* only logged.
ErrorAppend(errors, error) ==
  IF ~QStringIsEmpty(error) THEN Append(errors, Render(error)) ELSE errors

\* Faulty variant: what is passed for debugging is kept in errors_ as well.
ErrorKeepsDebug(s, error, debug) ==
  Once(FinishCheck,
       [s EXCEPT !.errors = ErrorAppend(ErrorAppend(@, error),
                                        IF debug.t # "undefined" THEN Lit("debug") ELSE <<>>)])

Error(s, error, debug) ==
  Once(FinishCheck, [s EXCEPT !.errors = ErrorAppend(@, error)])

NoDebug == JUndefined

\* Faulty variant: the request is queued and the queue is not flushed.
CreateScrobbleRequestNoFlush(s, request) == [s EXCEPT !.queue = Enqueue(@, request)]

\* Lines 60 to 69
CreateScrobbleRequest(s, request) ==
  Once(LAMBDA s1 : IF s1.active < kMaxConcurrentScrobbleRequests
                   THEN FlushScrobbleRequests(s1) ELSE s1,
       [s EXCEPT !.queue = Enqueue(@, request)])

(***************************************************************************)
(* ScrobbleReplyReceived(reply), the reply holding the bytes data.         *)
(***************************************************************************)
QListContains(list, x) == x \in Range(list)

\* Faulty variant: the list is left as it is.
QListRemoveNothing(list, x) == list

QListRemoveAll(list, x) == SelectSeq(list, LAMBDA y : y # x)

\* QObject::disconnect(reply, nullptr, this, nullptr)
Disconnect(s, reply) ==
  [s EXCEPT !.connected = @ \ {reply},
            !.calls = Append(@, Call("disconnect", reply))]

\* reply->deleteLater(): the reply is deleted when control returns to the
\* event loop, and its operation with it.
DeleteLater(s, reply) ==
  [s EXCEPT !.released = @ \cup {reply},
            !.running = @ \ {reply},
            !.calls = Append(@, Call("deleteLater", reply))]

\* Faulty variant: bytes that hold no JSON object are an error.
OnEmptyJsonError(s) ==
  Once(FinishCheck, Error([s EXCEPT !.outcome = "MalformedError"],
                          Lit("Reply is missing Json data."), NoDebug))

\* Faulty variant: bytes that hold no JSON object end the handling at once.
OnEmptyJsonReturns(s) == [s EXCEPT !.outcome = "Success"]

\* Lines 109 to 112: bytes that hold no JSON object
OnEmptyJson(s) == Once(FinishCheck, [s EXCEPT !.outcome = "Success"])

\* Lines 101 to 136: the outcome of the reply, from its bytes.
ClassifyReply(s, data) ==
  IF GetReplyData(data) = ""
  THEN Once(FinishCheck, [s EXCEPT !.outcome = "Success"])
  ELSE
    LET json_obj == ExtractJsonObj(GetReplyData(data)) IN
    IF JsonIsEmpty(json_obj)
    THEN OnEmptyJson(s)
    ELSE IF JsonContains(json_obj, "error")
    THEN
      LET json_error == JsonValue(json_obj, "error") IN
      IF ~JsonIsObject(json_error)
      THEN Once(FinishCheck, Error([s EXCEPT !.outcome = "MalformedError"],
                                   Lit("Json error is not an object."), JObj(json_obj)))
      ELSE
        LET error_obj == JsonToObject(json_error) IN
        IF /\ ~JsonIsEmpty(error_obj)
           /\ JsonContains(error_obj, "code")
           /\ JsonContains(error_obj, "message")
        THEN
          LET code == JsonToInt(JsonValue(error_obj, "code"))
              message == JsonToString(JsonValue(error_obj, "message"))
              text == Arg(Arg(Mark(1) \o Lit(" (") \o Mark(2) \o Lit(")"), message),
                          QStringNumber(code))
          IN Once(FinishCheck, Error([s EXCEPT !.outcome = "ProtocolError"], text, NoDebug))
        ELSE Once(FinishCheck, Error([s EXCEPT !.outcome = "MalformedError"],
                                     Lit("Json error object is missing code or message."),
                                     JObj(error_obj)))
    ELSE Once(FinishCheck, [s EXCEPT !.outcome = "Success"])

\* Faulty variant: every reply is handled.
IsKnownAny(s, reply) == TRUE

\* Line 92: a reply that is not in replies_ is not handled.
IsKnown(s, reply) == QListContains(s.replies, reply)

\* Faulty variant: the counter is left as it is.
DecrementNot(s, reply) == s

\* Line 97
Decrement(s, reply) ==
  [s EXCEPT !.active = @ - 1, !.decrements[reply] = @ + 1]

ScrobbleReplyReceived(s, reply, data) ==
  IF ~IsKnown(s, reply) THEN s
  ELSE
    LET s1 == [s EXCEPT !.replies = QListRemoveAll(@, reply)]
        s2 == DeleteLater(Disconnect(s1, reply), reply)
        s3 == Decrement(s2, reply)
    IN ClassifyReply(s3, data)

(***************************************************************************)
(* The destructor.                                                         *)
(***************************************************************************)
\* QNetworkReply::abort(): the operation ends at once and the reply emits
\* finished(), which calls what is connected to it; an aborted reply holds
\* no bytes.
Abort(s, reply) ==
  LET s1 == [s EXCEPT !.running = @ \ {reply},
                      !.calls = Append(@, Call("abort", reply))]
  IN IF reply \in s1.connected
     THEN ScrobbleReplyReceived([s1 EXCEPT !.calls = Append(@, Call("finished", reply))],
                                reply, NoContent)
     ELSE s1

\* Faulty variant: the reply is aborted while finished() is connected.
ReleaseReplyAbortFirst(s, reply) ==
  LET s1 == IF reply \in s.running THEN Abort(s, reply) ELSE s
  IN DeleteLater(Disconnect(s1, reply), reply)

\* Faulty variant: finished() stays connected.
ReleaseReplyNoDisconnect(s, reply) ==
  DeleteLater(IF reply \in s.running THEN Abort(s, reply) ELSE s, reply)

\* Lines 53 to 55, for the reply taken from replies_
ReleaseReply(s, reply) ==
  LET s1 == Disconnect(s, reply)
      s2 == IF reply \in s1.running THEN Abort(s1, reply) ELSE s1
  IN DeleteLater(s2, reply)

RECURSIVE Destructor(_)
Destructor(s) ==
  IF s.replies = <<>> THEN s
  ELSE LET reply == Head(s.replies)
       IN Once(LAMBDA v : Destructor(v),
               ReleaseReply([s EXCEPT !.replies = Tail(@)], reply))

(***************************************************************************)
(* The state machine.                                                      *)
(***************************************************************************)
\* The object as the variables hold it, at the start of an operation.
State ==
  [queue |-> scrobble_requests_queue_, active |-> scrobble_requests_active_,
   replies |-> replies_, errors |-> errors_,
   connected |-> connected, running |-> running, released |-> released,
   requests |-> requests, decrements |-> decrements,
   calls |-> <<>>, outcome |-> "None"]

Commit(s) ==
  /\ scrobble_requests_queue_' = s.queue
  /\ scrobble_requests_active_' = s.active
  /\ replies_' = s.replies
  /\ errors_' = s.errors
  /\ connected' = s.connected
  /\ running' = s.running
  /\ released' = s.released
  /\ requests' = s.requests
  /\ decrements' = s.decrements
  /\ calls' = s.calls

\* An operation: its name, whether it ran ScrobbleReplyReceived (handled),
\* for a reply of replies_ (known) or for one handled before (again), the
\* bytes read and the outcome, and the queue and counter it started with.
Op(name, handled, known, again, data, outcome) ==
  [op |-> name, handled |-> handled, known |-> known, again |-> again,
   data |-> data, outcome |-> outcome,
   before |-> [queue_len |-> Len(scrobble_requests_queue_),
               active |-> scrobble_requests_active_]]

Idle(s) == s.queue = <<>> /\ s.active = 0

\* The request of the n-th call of CreateScrobbleRequest
NewRequest(n) == [song_id |-> n, submission |-> (n % 2 = 1), time_ms |-> n]

\* The bytes GetReplyData finds in a reply: any, for a reply in flight, but
\* at most MaxErrorReplies replies of a run hold an error document; none,
\* for a reply that is not in flight.
ReplyData(reply) ==
  IF reply \notin Range(replies_) THEN {NoContent}
  ELSE IF Len(errors_) < MaxErrorReplies THEN SuccessData \cup ErrorData
  ELSE SuccessData

\* The constructor, lines 42 to 47
Init ==
  /\ scrobble_requests_queue_ = <<>>
  /\ scrobble_requests_active_ = 0
  /\ replies_ = <<>>
  /\ errors_ = <<>>
  /\ connected = {}
  /\ running = {}
  /\ released = {}
  /\ alive = TRUE
  /\ requests = <<>>
  /\ submitted = 0
  /\ decrements = [h \in Handles |-> 0]
  /\ burst = 0
  /\ calls = <<>>
  /\ lastOp = [op |-> "SubsonicScrobbleRequest", handled |-> FALSE, known |-> FALSE,
               again |-> FALSE, data |-> "", outcome |-> "None",
               before |-> [queue_len |-> 0, active |-> 0]]

\* A caller calls CreateScrobbleRequest.
Submit ==
  /\ alive
  /\ submitted < MaxSubmit
  /\ \E after \in {CreateScrobbleRequest(State, NewRequest(submitted + 1))} : Commit(after)
  /\ submitted' = submitted + 1
  /\ burst' = IF burst >= 0 THEN burst + 1 ELSE burst
  /\ lastOp' = Op("CreateScrobbleRequest", FALSE, FALSE, FALSE, "", "None")
  /\ UNCHANGED alive

\* What a call of ScrobbleReplyReceived(reply) does to the variables.
Handle(name, s, reply, data) ==
  \E known \in {QListContains(replies_, reply)},
     after \in {ScrobbleReplyReceived(s, reply, data)} :
     /\ Commit(after)
     /\ burst' = IF ~known THEN burst ELSE IF Idle(after) THEN 0 ELSE -1
     /\ lastOp' = Op(name, TRUE, known, reply \in released,
                     IF after.outcome = "None" THEN "" ELSE data, after.outcome)
     /\ UNCHANGED <<alive, submitted>>

\* ScrobbleReplyReceived is called with any reply, one in flight or not.
Receive(reply) ==
  /\ alive
  /\ \E data \in ReplyData(reply) : Handle("ScrobbleReplyReceived", State, reply, data)

\* A reply emits finished(): what is connected to the signal is called, at
\* once.  A reply may emit it after the object is gone; a call through a
\* connection that outlived the object uses the object after its end, and
\* what that does is not defined.
Finished(reply) ==
  /\ reply \in 1..Len(requests)
  /\ IF reply \in connected
     THEN IF alive
          THEN \E data \in ReplyData(reply) :
                 Handle("finished", [State EXCEPT !.calls = <<Call("finished", reply)>>],
                        reply, data)
          ELSE /\ errors_' \in {errors_, Append(errors_, "use after free")}
               /\ scrobble_requests_active_' \in
                    {scrobble_requests_active_, scrobble_requests_active_ - 1}
               /\ calls' = <<Call("finished", reply)>>
               /\ lastOp' = Op("finished", TRUE, FALSE, reply \in released, "", "None")
               /\ UNCHANGED <<scrobble_requests_queue_, replies_, connected, running,
                              released, alive, requests, submitted, decrements, burst>>
     ELSE /\ calls' = <<Call("finished", reply)>>
          /\ lastOp' = Op("finished", FALSE, FALSE, reply \in released, "", "None")
          /\ UNCHANGED <<scrobble_requests_queue_, scrobble_requests_active_, replies_,
                         errors_, connected, running, released, alive, requests,
                         submitted, decrements, burst>>

\* The network operation of a reply ends; the reply has yet to emit
\* finished().
OperationEnds(reply) ==
  /\ reply \in running
  /\ running' = running \ {reply}
  /\ calls' = <<>>
  /\ lastOp' = Op("operation ends", FALSE, FALSE, FALSE, "", "None")
  /\ UNCHANGED <<scrobble_requests_queue_, scrobble_requests_active_, replies_, errors_,
                 connected, released, alive, requests, submitted, decrements, burst>>

\* The object is destroyed.
Teardown ==
  /\ alive
  /\ \E after \in {Destructor(State)} : Commit(after)
  /\ alive' = FALSE
  /\ burst' = -1
  /\ lastOp' = Op("~SubsonicScrobbleRequest", FALSE, FALSE, FALSE, "", "None")
  /\ UNCHANGED submitted

Next ==
  \/ Submit
  \/ \E reply \in Handles : Receive(reply)
  \/ \E reply \in Handles : Finished(reply)
  \/ \E reply \in Handles : OperationEnds(reply)
  \/ Teardown

Spec == Init /\ [][Next]_vars

\* The object is never destroyed, and as long as replies are in flight one
\* of them emits finished() in the end.
ReplyFinishes == \E reply \in Range(replies_) : Finished(reply)

NextLive ==
  \/ Submit
  \/ \E reply \in Handles : Receive(reply)
  \/ \E reply \in Handles : Finished(reply)

LiveSpec == Init /\ [][NextLive]_vars /\ WF_vars(ReplyFinishes)

(***************************************************************************)
(* The replies of every shape.  Requests are submitted and the replies in  *)
(* flight are handled, holding any of the bytes below.                     *)
(***************************************************************************)
\* The number of CreateScrobbleRequest calls of such a run
MaxReplySubmit == 3

\* The number of replies of such a run that hold an error document
MaxReplyErrors == 1

AllSuccessData == {NoContent, NotJson, EmptyDocument, StatusOk}

AllErrorData ==
  {ErrorIsString, ErrorIsNull, ErrorIsEmptyObject, ErrorCodeOnly, ErrorMessageOnly,
   ErrorCodeMessage, ErrorNegativeCode, ErrorMarkerMessage, ErrorTextCode,
   ErrorNumberMessage}

SubmitFew == submitted < MaxReplySubmit /\ Submit

ReceiveAny(reply) ==
  /\ alive
  /\ reply \in Range(replies_)
  /\ \E data \in (IF Len(errors_) < MaxReplyErrors
                  THEN AllSuccessData \cup AllErrorData ELSE AllSuccessData) :
       Handle("finished", [State EXCEPT !.calls = <<Call("finished", reply)>>],
              reply, data)

NextReply ==
  \/ SubmitFew
  \/ \E reply \in Handles : ReceiveAny(reply)

ReplySpec == Init /\ [][NextReply]_vars

(***************************************************************************)
(* Properties.                                                             *)
(***************************************************************************)
\* The step just taken ran ScrobbleReplyReceived for a reply of replies_.
HandledKnown == lastOp.handled /\ lastOp.known

\* The number of CreateGetRequest calls the last operation made
Dispatches == Cardinality({i \in 1..Len(calls) : calls[i].call = "CreateGetRequest"})

\* C1: in every reachable state, whatever the order of the calls of
\* CreateScrobbleRequest and of ScrobbleReplyReceived, the counter
\* scrobble_requests_active_ is at least 0 and at most
\* kMaxConcurrentScrobbleRequests.
C1_ActiveWithinLimit ==
  /\ scrobble_requests_active_ >= 0
  /\ scrobble_requests_active_ <= kMaxConcurrentScrobbleRequests

\* C1, witness: a reply was handled while requests waited, and the counter
\* is at the limit again with a request still waiting.
C1_Witness ==
  /\ HandledKnown
  /\ lastOp.before.queue_len >= 2
  /\ scrobble_requests_active_ = kMaxConcurrentScrobbleRequests
  /\ scrobble_requests_queue_ # <<>>

\* C2: requests are handed to CreateGetRequest in the order of their
\* CreateScrobbleRequest calls: the n-th request sent is the n-th request
\* submitted, whatever the order in which the replies are handled.
C2_FifoDispatch ==
  \A i \in 1..Len(requests) : requests[i] = NewRequest(i)

\* C2, witness: replies were handled out of the order of their requests,
\* and requests that had waited in the queue were sent.
C2_Witness ==
  /\ Len(requests) >= kMaxConcurrentScrobbleRequests + 2
  /\ decrements[1] = 0
  /\ decrements[2] = 1
  /\ decrements[3] = 1

\* C3: after N calls of CreateScrobbleRequest from an idle queue, with no
\* reply handled in between, min(N, limit) requests are in flight and
\* max(0, N - limit) are in the queue.
C3_BurstFromIdle ==
  (alive /\ burst >= 0) =>
    /\ scrobble_requests_active_ = Min(burst, kMaxConcurrentScrobbleRequests)
    /\ Len(replies_) = Min(burst, kMaxConcurrentScrobbleRequests)
    /\ Len(scrobble_requests_queue_) = Max(0, burst - kMaxConcurrentScrobbleRequests)

\* C3, witness: more calls than the limit, from a queue that was idle after
\* replies had been handled.
C3_Witness ==
  /\ alive
  /\ burst > kMaxConcurrentScrobbleRequests
  /\ released # {}
  /\ Len(replies_) = kMaxConcurrentScrobbleRequests
  /\ Len(scrobble_requests_queue_) = burst - kMaxConcurrentScrobbleRequests

\* C4: when ScrobbleReplyReceived handles a reply of replies_ while the
\* queue is not empty and the counter is at the limit, exactly one request
\* is sent, the head of the queue, whatever the outcome of the reply.
C4_OneDispatchPerCompletion ==
  [][(/\ HandledKnown'
      /\ scrobble_requests_queue_ # <<>>
      /\ scrobble_requests_active_ = kMaxConcurrentScrobbleRequests)
     => /\ Dispatches' = 1
        /\ Len(requests') = Len(requests) + 1
        /\ requests'[Len(requests')] = Head(scrobble_requests_queue_)
        /\ scrobble_requests_queue_' = Tail(scrobble_requests_queue_)
        /\ scrobble_requests_active_' = kMaxConcurrentScrobbleRequests
        /\ lastOp'.outcome \in {"Success", "ProtocolError", "MalformedError"}]_vars

\* C4, witness: a reply with a protocol error was handled while two or
\* more requests waited and the counter was at the limit; one was sent.
C4_Witness ==
  /\ HandledKnown
  /\ lastOp.outcome = "ProtocolError"
  /\ lastOp.before.queue_len >= 2
  /\ lastOp.before.active = kMaxConcurrentScrobbleRequests
  /\ Dispatches = 1
  /\ Len(scrobble_requests_queue_) = lastOp.before.queue_len - 1

\* C5: ScrobbleReplyReceived with a reply that is not in replies_ (never
\* sent, or handled before) changes nothing: not the counter, replies_, the
\* queue or errors_, and no request is sent.
C5_UnknownReplyIgnored ==
  [][(lastOp'.handled /\ ~lastOp'.known /\ alive')
     => /\ UNCHANGED <<scrobble_requests_queue_, scrobble_requests_active_, replies_,
                       errors_, requests, decrements, connected, released>>
        /\ Dispatches' = 0
        /\ lastOp'.outcome = "None"]_vars

\* C5, witness: ScrobbleReplyReceived was called a second time for a reply
\* while a request waited in the queue, and the counter is still at the limit.
C5_Witness ==
  /\ lastOp.handled
  /\ ~lastOp.known
  /\ lastOp.again
  /\ scrobble_requests_queue_ # <<>>
  /\ scrobble_requests_active_ = kMaxConcurrentScrobbleRequests

\* The replies ScrobbleReplyReceived has handled
Completed == {h \in 1..Len(requests) : decrements[h] >= 1}

\* C6 as stated: the counter is decremented exactly once for every request
\* sent, on every path: a reply handled with any outcome, and a reply the
\* destructor aborts.  A reply is off every path once it left replies_.
C6_DecrementedOnEveryPath ==
  \A h \in 1..Len(requests) :
    decrements[h] = IF h \in Range(replies_) THEN 0 ELSE 1

\* C6, amended: the counter is decremented exactly once for every reply
\* ScrobbleReplyReceived handles, with any outcome, and never otherwise;
\* the destructor releases the replies in flight and leaves the counter at
\* their number.
C6_DecrementedOncePerHandledReply ==
  /\ \A h \in Handles : decrements[h] <= 1 /\ (h > Len(requests) => decrements[h] = 0)
  /\ alive => \A h \in 1..Len(requests) : (decrements[h] = 1 <=> h \notin Range(replies_))
  /\ HandledKnown => scrobble_requests_active_ = lastOp.before.active - 1 + Dispatches
  /\ scrobble_requests_active_ = Len(requests) - Cardinality(Completed)
  /\ ~alive => /\ replies_ = <<>>
               /\ released = 1..Len(requests)

\* C6, witness: replies were handled, the last with a malformed error, and
\* then the destructor released three replies in flight.
C6_Witness ==
  /\ ~alive
  /\ lastOp.op = "~SubsonicScrobbleRequest"
  /\ lastOp.before.active = kMaxConcurrentScrobbleRequests
  /\ scrobble_requests_active_ = kMaxConcurrentScrobbleRequests
  /\ Cardinality(Completed) >= 2
  /\ "Json error is not an object." \in Range(errors_)

\* C7: once the destructor has run, a reply that emits finished() reaches
\* nothing: ScrobbleReplyReceived is not run, errors_ and the counter do
\* not change, and no request leaves the queue.
C7_NothingAfterTeardown ==
  [][~alive =>
       /\ ~lastOp'.handled
       /\ lastOp'.outcome = "None"
       /\ UNCHANGED <<scrobble_requests_queue_, scrobble_requests_active_, replies_,
                      errors_, requests, decrements>>]_vars

\* C7, witness: after the destructor, a reply that was in flight when it
\* ran emitted finished(), with requests still in the queue.
C7_Witness ==
  /\ ~alive
  /\ lastOp.op = "finished"
  /\ scrobble_requests_queue_ # <<>>
  /\ errors_ # <<>>
  /\ \E h \in 1..Len(requests) : calls = <<Call("finished", h)>> /\ decrements[h] = 0

\* The places of the calls the destructor made for reply h are in order:
\* disconnect, abort when the reply was running and not otherwise, deleteLater.
ReleasedInOrder(log, h, was_running) ==
  \E i, k \in 1..Len(log) :
    /\ i < k
    /\ log[i] = Call("disconnect", h)
    /\ log[k] = Call("deleteLater", h)
    /\ \A j \in 1..Len(log) : log[j] = Call("abort", h) => (was_running /\ i < j /\ j < k)
    /\ was_running => \E j \in 1..Len(log) : log[j] = Call("abort", h)

\* C8: the destructor handles every reply of replies_: finished() is
\* disconnected before the reply is aborted, the operation of a reply that
\* is running is aborted, and the reply is released; no slot is called
\* meanwhile, no operation runs afterwards, and replies_ is empty at the end.
C8_TeardownReleasesAll ==
  [][(alive /\ ~alive') =>
       /\ replies_' = <<>>
       /\ \A h \in Range(replies_) :
            /\ ReleasedInOrder(calls', h, h \in running)
            /\ h \notin connected' /\ h \notin running' /\ h \in released'
       /\ \A i \in 1..Len(calls') : calls'[i].call # "finished"
       /\ Len(calls') = 2 * Len(replies_) + Cardinality(running)]_vars

\* C8, witness: the destructor ran with the limit of replies in flight, one
\* of them with its operation ended, and a request in the queue.
C8_Witness ==
  /\ ~alive
  /\ lastOp.op = "~SubsonicScrobbleRequest"
  /\ lastOp.before.active = kMaxConcurrentScrobbleRequests
  /\ lastOp.before.queue_len >= 1
  /\ Len(calls) = 3 * kMaxConcurrentScrobbleRequests - 1
  /\ running = {} /\ connected = {}

\* C9: when every reply in flight emits finished() in the end and the
\* object is not destroyed, every request submitted is sent in the end, and
\* the queue is empty from some point on.
C9_BacklogDrains ==
  <>[](scrobble_requests_queue_ = <<>> /\ Len(requests) = submitted)

\* C9, witness: more requests than the limit were submitted, replies with
\* errors were handled, and every request has been sent.
C9_Witness ==
  /\ submitted >= kMaxConcurrentScrobbleRequests + 2
  /\ Len(requests) = submitted
  /\ scrobble_requests_queue_ = <<>>
  /\ Len(errors_) >= 2

\* The bytes hold no error document: there are none, or they are no JSON
\* object, or the object has no member "error".
HoldsNoError(data) ==
  \/ GetReplyData(data) = ""
  \/ JsonIsEmpty(ExtractJsonObj(GetReplyData(data)))
  \/ ~JsonContains(ExtractJsonObj(GetReplyData(data)), "error")

\* C10: a reply with no bytes, with bytes that are no JSON document, or
\* with a document without "error" has the outcome Success, and errors_ is
\* as it was.
C10_SuccessIsSilent ==
  [][(HandledKnown' /\ HoldsNoError(lastOp'.data))
     => lastOp'.outcome = "Success" /\ errors_' = errors_]_vars

\* C10, witness: bytes that are no JSON document were handled as a success,
\* with errors_ holding the messages of earlier replies.
C10_Witness ==
  /\ HandledKnown
  /\ lastOp.data = NotJson
  /\ lastOp.outcome = "Success"
  /\ errors_ # <<>>


\* The member "error" of the document in the bytes
ErrorOf(data) == JsonValue(ExtractJsonObj(GetReplyData(data)), "error")

\* The bytes hold a document whose "error" is an object with an integer
\* "code" and a string "message".
HoldsCodeAndMessage(data) ==
  /\ ~HoldsNoError(data)
  /\ JsonIsObject(ErrorOf(data))
  /\ JsonValue(JsonToObject(ErrorOf(data)), "code").t = "num"
  /\ JsonValue(JsonToObject(ErrorOf(data)), "message").t = "str"

\* The text "{message} ({code})" for the code and the message in the bytes
ProtocolErrorText(data) ==
  Render(JsonValue(JsonToObject(ErrorOf(data)), "message").s) \o " (" \o
  ToString(JsonValue(JsonToObject(ErrorOf(data)), "code").n) \o ")"

\* C11: a reply whose "error" is an object with a code and a message has
\* the outcome ProtocolError, and exactly one entry is appended to errors_:
\* the message, a space, and the code in parentheses, for every message
\* and every integer code.
C11_ProtocolErrorText ==
  [][(HandledKnown' /\ HoldsCodeAndMessage(lastOp'.data))
     => /\ lastOp'.outcome = "ProtocolError"
        /\ errors_' = Append(errors_, ProtocolErrorText(lastOp'.data))]_vars


\* The bytes hold a document whose "error" is no object, or an object
\* without "code" or without "message".
HoldsMalformedError(data) ==
  /\ ~HoldsNoError(data)
  /\ \/ ~JsonIsObject(ErrorOf(data))
     \/ ~JsonContains(JsonToObject(ErrorOf(data)), "code")
     \/ ~JsonContains(JsonToObject(ErrorOf(data)), "message")

\* Every text of the form "{message} ({code})", for the messages and the
\* codes that replies hold, the empty message and the code 0 included.
ProtocolErrorTexts ==
  LET objs == {JsonToObject(ErrorOf(data)) : data \in AllErrorData}
      messages == {Render(JsonToString(JsonValue(o, "message"))) : o \in objs}
      codes == {JsonToInt(JsonValue(o, "code")) : o \in objs}
  IN {m \o " (" \o ToString(c) \o ")" : m \in messages, c \in codes}

\* C12: a reply whose "error" is no object, or an object without code or
\* without message (the empty object included), has the outcome
\* MalformedError and appends exactly one entry to errors_; the entry is
\* one of the two fixed messages of lines 117 and 129, hence not empty,
\* not of the form "{message} ({code})", and without the document that is
\* passed along for debugging.
C12_MalformedErrorEntry ==
  [][(HandledKnown' /\ HoldsMalformedError(lastOp'.data))
     => /\ lastOp'.outcome = "MalformedError"
        /\ Len(errors_') = Len(errors_) + 1
        /\ SubSeq(errors_', 1, Len(errors_)) = errors_
        /\ errors_'[Len(errors_')] # ""
        /\ errors_'[Len(errors_')] \notin ProtocolErrorTexts
        /\ errors_'[Len(errors_')] =
             IF JsonIsObject(ErrorOf(lastOp'.data))
             THEN "Json error object is missing code or message."
             ELSE "Json error is not an object."]_vars

\* C12, witness: an empty error object was handled as a malformed error
\* and left its one entry in errors_.
C12_Witness ==
  /\ HandledKnown
  /\ lastOp.data = ErrorIsEmptyObject
  /\ lastOp.outcome = "MalformedError"
  /\ Len(errors_) = 1


\* C13: CreateScrobbleRequest always queues its request, as the last of
\* the requests submitted: the requests sent, followed by those waiting,
\* are the ones before the call followed by the new one.  Called with the
\* counter at the limit it sends nothing: the queue is the one before with
\* the new request at its tail, and the counter, replies_ and errors_ are
\* unchanged.
C13_SubmitAppends ==
  [][lastOp'.op = "CreateScrobbleRequest"
     => /\ requests' \o scrobble_requests_queue_' =
             Append(requests \o scrobble_requests_queue_, NewRequest(submitted + 1))
        /\ scrobble_requests_active_ = kMaxConcurrentScrobbleRequests
             => /\ scrobble_requests_queue_' =
                     Append(scrobble_requests_queue_, NewRequest(submitted + 1))
                /\ Dispatches' = 0
                /\ UNCHANGED <<scrobble_requests_active_, replies_, errors_,
                               requests, connected>>]_vars

\* C13, witness: CreateScrobbleRequest was called with the counter at the
\* limit and a request waiting, and its request is the last of the queue,
\* behind the one that waited.
C13_Witness ==
  /\ lastOp.op = "CreateScrobbleRequest"
  /\ lastOp.before.active = kMaxConcurrentScrobbleRequests
  /\ lastOp.before.queue_len >= 1
  /\ Len(scrobble_requests_queue_) = lastOp.before.queue_len + 1
  /\ scrobble_requests_queue_[Len(scrobble_requests_queue_)] = NewRequest(submitted)


\* C14: no request is retried.  Each request submitted is either still in
\* the queue or was handed to CreateGetRequest, never both and never
\* twice, whatever the outcome of its reply: a request that was sent is
\* not put back into the queue and is not sent again.
C14_NoRetry ==
  LET all == requests \o scrobble_requests_queue_
  IN /\ Len(all) = submitted
     /\ \A n \in 1..submitted :
          Cardinality({i \in 1..Len(all) : all[i] = NewRequest(n)}) = 1

\* C14, witness: every request was sent and every reply handled, replies
\* with an error among them, and nothing is left to send.
C14_Witness ==
  /\ alive
  /\ submitted >= kMaxConcurrentScrobbleRequests + 1
  /\ Len(requests) = submitted
  /\ replies_ = <<>>
  /\ \A h \in 1..submitted : decrements[h] = 1
  /\ Len(errors_) >= 2


\* C15: as long as the object lives, after every call of
\* CreateScrobbleRequest and of ScrobbleReplyReceived, the counter
\* scrobble_requests_active_ is the number of replies in replies_, each of
\* them held once, in whatever order the replies are handled.
C15_CounterIsRepliesSize ==
  alive =>
    /\ scrobble_requests_active_ = Len(replies_)
    /\ Cardinality(Range(replies_)) = Len(replies_)

\* C15, witness: the replies of the second and the third request were
\* handled before the one of the first, requests that waited were sent in
\* their place, and the counter is at the limit.
C15_Witness ==
  /\ alive
  /\ HandledKnown
  /\ decrements[1] = 0
  /\ decrements[2] = 1
  /\ decrements[3] = 1
  /\ scrobble_requests_active_ = kMaxConcurrentScrobbleRequests
  /\ Range(replies_) = {1, 4, 5}


\* What the queueing of the object consists of: the queue, the counter,
\* the replies in flight and their connections, and the requests sent.
Queueing(s) ==
  [queue |-> s.queue, active |-> s.active, replies |-> s.replies,
   connected |-> s.connected, requests |-> s.requests]

\* C16: what a reply holds has no influence on the queueing.  From one
\* and the same state, handling one and the same reply in flight with any
\* two contents leaves the same queue, the same counter, the same replies
\* in flight and the same requests sent; only errors_ may differ.
C16_QueueingIgnoresData ==
  alive =>
    \A reply \in Range(replies_) :
      \E one \in {Queueing(ScrobbleReplyReceived(State, reply, NoContent))} :
        \A data \in AllSuccessData \cup AllErrorData :
          Queueing(ScrobbleReplyReceived(State, reply, data)) = one

\* C16, witness: a reply with an error document was handled while
\* requests waited; one of them was sent and one still waits, as after a
\* reply with any other content.
C16_Witness ==
  /\ HandledKnown
  /\ lastOp.data = ErrorCodeMessage
  /\ lastOp.before.queue_len = 2
  /\ Len(scrobble_requests_queue_) = 1
  /\ Dispatches = 1
  /\ errors_ # <<>>


\* C17: a reply with a member "error" has the outcome ProtocolError only
\* when the error is an object with a numeric code and a textual message;
\* an error of any other shape has the outcome MalformedError.
C17_ProtocolErrorOnlyWellFormed ==
  [][(HandledKnown' /\ ~HoldsNoError(lastOp'.data))
     => lastOp'.outcome = IF HoldsCodeAndMessage(lastOp'.data)
                          THEN "ProtocolError" ELSE "MalformedError"]_vars


\* C18: errors_ only grows at its end and never holds the empty string.
\* Every step leaves the entries it held where they were and adds none
\* that is empty, and Error called with an empty message adds nothing.
C18_ErrorsAppendOnly ==
  [][/\ Len(errors_') >= Len(errors_)
     /\ SubSeq(errors_', 1, Len(errors_)) = errors_
     /\ \A i \in 1..Len(errors_') : errors_'[i] # ""
     /\ ErrorAppend(errors_, Lit("")) = errors_
     /\ ErrorAppend(errors_, <<>>) = errors_]_vars

\* C18, witness: a reply with an error document was handled when errors_
\* held a message already, and errors_ holds both, the earlier one first.
C18_Witness ==
  /\ HandledKnown
  /\ lastOp.outcome = "ProtocolError"
  /\ Len(errors_) = 2
  /\ errors_[1] = "Json error is not an object."
  /\ errors_[2] = "bad session (70)"


\* C19: as long as the object lives, no request waits while a slot is
\* free: whenever the queue is not empty between two operations, the
\* counter is at kMaxConcurrentScrobbleRequests.
C19_NoIdleSlot ==
  (alive /\ scrobble_requests_queue_ # <<>>)
    => scrobble_requests_active_ = kMaxConcurrentScrobbleRequests

\* C19, witness: a reply was handled with two requests waiting; the slot
\* it freed was taken by the first of them, and the other still waits
\* with the counter at the limit.
C19_Witness ==
  /\ alive
  /\ HandledKnown
  /\ lastOp.before.queue_len = 2
  /\ lastOp.before.active = kMaxConcurrentScrobbleRequests
  /\ Len(scrobble_requests_queue_) = 1
  /\ scrobble_requests_active_ = kMaxConcurrentScrobbleRequests

\* The requests whose replies are in replies_
InFlight == {requests[h] : h \in Range(replies_)}

\* C20: as long as the object lives, the number of CreateScrobbleRequest
\* calls is the length of the queue plus the counter plus the number of
\* replies handled; every request submitted is waiting, in flight or
\* done, and none is both in the queue and in flight.
C20_RequestsConserved ==
  alive =>
    /\ submitted = Len(scrobble_requests_queue_) + scrobble_requests_active_
                     + Cardinality(Completed)
    /\ Range(scrobble_requests_queue_) \cup InFlight
         \cup {requests[h] : h \in Completed}
       = {NewRequest(n) : n \in 1..submitted}
    /\ Range(scrobble_requests_queue_) \cap InFlight = {}

\* C20, witness: of five requests one still waits, three are in flight
\* and the reply of one, which held an error document, was handled.
C20_Witness ==
  /\ alive
  /\ submitted = kMaxConcurrentScrobbleRequests + 2
  /\ Len(scrobble_requests_queue_) = 1
  /\ scrobble_requests_active_ = kMaxConcurrentScrobbleRequests
  /\ Cardinality(Completed) = 1
  /\ Len(errors_) = 1

====
